---- MODULE Spec2Model ----
(***************************************************************************)
(* Model of mne/preprocessing/ssp.py: the SSP projection pipeline          *)
(* _compute_exg_proj and its two public wrappers compute_proj_ecg and      *)
(* compute_proj_eog.                                                       *)
(*                                                                         *)
(* One action is one whole invocation.  The objects that outlive an        *)
(* invocation are the recordings (signal data, attached projection list)   *)
(* and the two default `reject` dictionaries, which Python creates once,   *)
(* when the `def` statements run.  The collaborators (detectors, filters,  *)
(* Epochs, reducers) are recorded, in call order, in `calls`.              *)
(***************************************************************************)
EXTENDS Integers, Sequences, FiniteSets, TLC

\* ---------------------------------------------------------------- bounds
MaxCalls == 2      \* invocations in one run of the program

\* ------------------------------------------------------- python values
None == {}                     \* an optional argument is a set of <= 1 value
Some(x) == {x}

Inf == 1000000000              \* np.inf in the ocular default reject

EmptyDict == [c \in {} |-> 0]

\* del d[k] on a dict d that has k
DelKey(d, k) == [c \in (DOMAIN d) \ {k} |-> d[c]]

\* ----------------------------------------------------------- recordings
\* Three recordings a caller can hold.  RA has every category, RB has no
\* gradiometer and no EOG channel and its only EEG channel is marked bad,
\* RC was constructed without preload.
Recordings == {"RA", "RB", "RC"}

ChType == [g1 |-> "grad", m1 |-> "mag", e1 |-> "eeg", o1 |-> "eog", s1 |-> "stim"]

Channels == [RA |-> {"g1", "m1", "e1", "o1", "s1"},
             RB |-> {"m1", "e1", "s1"},
             RC |-> {"g1", "m1", "e1", "o1"}]

InfoBads == [RA |-> {}, RB |-> {"e1"}, RC |-> {}]

Preloaded == [RA |-> TRUE, RB |-> TRUE, RC |-> FALSE]

\* raw.info['projs'] when the recording is opened
OrigProj(i) == [kind |-> "orig", call |-> 0, idx |-> i]

InitProjs == [RA |-> <<OrigProj(1), OrigProj(2)>>,
              RB |-> <<>>,
              RC |-> <<OrigProj(1)>>]

\* ------------------------------------------------------- argument values
EcgDefaultReject == [grad |-> 2000, mag |-> 3000, eeg |-> 50, eog |-> 250]

EogDefaultReject == [grad |-> 2000, mag |-> 3000, eeg |-> 500, eog |-> Inf]

EcgEventId == 999

EogEventId == 998

DefaultFilterLength == 2048

\* n_grad = n_mag = n_eeg
DefaultNVec == 2

\* reject dictionaries a caller writes
FullReject == [grad |-> 4000, mag |-> 4000, eeg |-> 100, eog |-> 150]

PartialReject == [grad |-> 4000, mag |-> 4000]

LFreqs == {None, Some(1)}

HFreqs == {None, Some(35)}

BadsLists == {{}, {"o1"}}

DefaultNJobs == 1

\* mode strings _compute_exg_proj does not know
OtherModes == {"EMG"}

\* ------------------------------------------------------- collaborators
\* fiff.pick_types(info, meg, eeg, eog, exclude): meg is the set of MEG
\* categories asked for (True = both, 'grad', 'mag', False = none).
pick_types(r, meg, eeg, eog, exclude) ==
    {ch \in Channels[r] :
        /\ ch \notin exclude
        /\ \/ ChType[ch] \in meg
           \/ eeg /\ ChType[ch] = "eeg"
           \/ eog /\ ChType[ch] = "eog"}

\* fiff.make_eeg_average_ref_proj(raw.info): a new projection object
make_eeg_average_ref_proj(n) == [kind |-> "avgref", call |-> n, idx |-> 0]

\* compute_proj_evoked / compute_proj_epochs with the budgets n_grad, n_mag
\* and n_eeg: for each of the three categories, in this order, as many new
\* projection objects as the budget allows and the picked channels of the
\* category can carry; none for EOG
CatProjs(n, r, picks, cat, budget) ==
    LET have == Cardinality({ch \in picks : ChType[ch] = cat})
        m == IF have < budget THEN have ELSE budget
    IN  [i \in 1..m |-> [kind |-> cat, call |-> n, idx |-> i]]

compute_proj(n, r, picks) ==
    CatProjs(n, r, picks, "grad", DefaultNVec)
        \o CatProjs(n, r, picks, "mag", DefaultNVec)
        \o CatProjs(n, r, picks, "eeg", DefaultNVec)

NoCall == [op |-> "", seen |-> <<>>, picks |-> {}, cutoffs |-> <<>>,
           filter_length |-> 0, n_jobs |-> 0, reject |-> EmptyDict,
           ret |-> <<>>]

Unbound == [bound |-> FALSE, detector |-> "", event_id |-> 0]

NoExc == "none"

PreloadError == "ValueError: raw needs to be preloaded"

ModeError == "ValueError: mode must be 'ECG' or 'EOG'"

KeyError == "KeyError"

UnboundLocalError == "UnboundLocalError: events"

FilterOps == {"high_pass_filter", "low_pass_filter", "band_pass_filter"}

DetectOps == {"find_ecg_events", "find_eog_events"}

ReduceOps == {"compute_proj_evoked", "compute_proj_epochs"}

VARIABLES data, projs, dicts, nCalls, args, entry, calls, outcome, result

vars == <<data, projs, dicts, nCalls, args, entry, calls, outcome, result>>

\* ------------------------------------------------ the frame of one call
\* a : the arguments of _compute_exg_proj (reject is the name of the dict
\*     object the parameter refers to, n the number of this invocation);
\* f : the heap (data, projs, dicts), the locals (plist says which list
\*     object `projs` refers to, local is the list created by `projs = []`),
\*     the collaborator calls so far, and the pending exception.
Frame(callerDict) ==
    [data |-> data, projs |-> projs,
     dicts |-> [dicts EXCEPT !["caller"] = callerDict],
     plist |-> "local", local |-> <<>>, events |-> Unbound, picks |-> {},
     calls |-> <<>>, exc |-> NoExc]

Log(f, c) == [f EXCEPT !.calls = Append(@, c)]

CurProjs(a, f) == IF f.plist = "raw" THEN f.projs[a.raw] ELSE f.local

\* projs.append / projs.extend on whichever list object `projs` refers to
ExtendProjs(a, f, s) ==
    IF f.plist = "raw"
    THEN [f EXCEPT !.projs[a.raw] = @ \o s]
    ELSE [f EXCEPT !.local = @ \o s]

\* the error is built and not raised
CheckPreloaded_NoRaise(a, f) == f

\* lines 89-90
CheckPreloaded(a, f) ==
    IF ~Preloaded[a.raw] THEN [f EXCEPT !.exc = PreloadError] ELSE f

\* the average reference goes in front: projs.insert(0, eeg_proj)
SelectProjs_AvgFirst(a, f) ==
    LET g == IF a.no_proj
             THEN [f EXCEPT !.plist = "local", !.local = <<>>]
             ELSE [f EXCEPT !.plist = "raw"]
        eeg_proj == make_eeg_average_ref_proj(a.n)
        h == Log(g, [NoCall EXCEPT !.op = "make_eeg_average_ref_proj",
                                   !.ret = <<eeg_proj>>])
    IN  IF a.avg_ref
        THEN IF h.plist = "raw"
             THEN [h EXCEPT !.projs[a.raw] = <<eeg_proj>> \o @]
             ELSE [h EXCEPT !.local = <<eeg_proj>> \o @]
        ELSE g

\* no_proj is ignored: projs = raw.info['projs'] in both cases
SelectProjs_KeepExisting(a, f) ==
    LET g == [f EXCEPT !.plist = "raw"]
        eeg_proj == make_eeg_average_ref_proj(a.n)
    IN  IF a.avg_ref
        THEN ExtendProjs(a,
                 Log(g, [NoCall EXCEPT !.op = "make_eeg_average_ref_proj",
                                       !.ret = <<eeg_proj>>]),
                 <<eeg_proj>>)
        ELSE g

\* the output is built in a copy: projs = list(raw.info['projs'])
SelectProjs_Copy(a, f) ==
    LET g == IF a.no_proj
             THEN [f EXCEPT !.plist = "local", !.local = <<>>]
             ELSE [f EXCEPT !.plist = "local", !.local = f.projs[a.raw]]
        eeg_proj == make_eeg_average_ref_proj(a.n)
    IN  IF a.avg_ref
        THEN ExtendProjs(a,
                 Log(g, [NoCall EXCEPT !.op = "make_eeg_average_ref_proj",
                                       !.ret = <<eeg_proj>>]),
                 <<eeg_proj>>)
        ELSE g

\* lines 92-101
SelectProjs(a, f) ==
    LET g == IF a.no_proj
             THEN [f EXCEPT !.plist = "local", !.local = <<>>]
             ELSE [f EXCEPT !.plist = "raw"]
        eeg_proj == make_eeg_average_ref_proj(a.n)
    IN  IF a.avg_ref
        THEN ExtendProjs(a,
                 Log(g, [NoCall EXCEPT !.op = "make_eeg_average_ref_proj",
                                       !.ret = <<eeg_proj>>]),
                 <<eeg_proj>>)
        ELSE g

\* lines 103-110: the else branch builds a ValueError and drops it
DetectEvents(a, f) ==
    IF a.mode = "ECG"
    THEN [Log(f, [NoCall EXCEPT !.op = "find_ecg_events",
                                !.seen = f.data[a.raw]])
            EXCEPT !.events = [bound |-> TRUE, detector |-> "find_ecg_events",
                               event_id |-> a.event_id]]
    ELSE IF a.mode = "EOG"
    THEN [Log(f, [NoCall EXCEPT !.op = "find_eog_events",
                                !.seen = f.data[a.raw]])
            EXCEPT !.events = [bound |-> TRUE, detector |-> "find_eog_events",
                               event_id |-> a.event_id]]
    ELSE f

\* one `if len(pick_types(...)) == 0: del reject[key]` of lines 115-122
PruneKey(a, f, meg, eeg, eog, key) ==
    IF Cardinality(pick_types(a.raw, meg, eeg, eog, {})) = 0
    THEN IF key \in DOMAIN f.dicts[a.reject]
         THEN [f EXCEPT !.dicts[a.reject] = DelKey(@, key)]
         ELSE [f EXCEPT !.exc = KeyError]
    ELSE f

\* lines 114-122
PruneReject(a, f) ==
    LET s1 == {IF x.exc = NoExc THEN PruneKey(a, x, {"grad"}, FALSE, FALSE, "grad") ELSE x : x \in {f}}
        s2 == {IF x.exc = NoExc THEN PruneKey(a, x, {"mag"}, FALSE, FALSE, "mag") ELSE x : x \in s1}
        s3 == {IF x.exc = NoExc THEN PruneKey(a, x, {}, TRUE, FALSE, "eeg") ELSE x : x \in s2}
        s4 == {IF x.exc = NoExc THEN PruneKey(a, x, {}, FALSE, TRUE, "eog") ELSE x : x \in s3}
    IN  CHOOSE x \in s4 : TRUE

\* raw.high_pass_filter / low_pass_filter / band_pass_filter: the signal is
\* the sequence of the filters applied to it since the recording was opened
ApplyFilter(a, f, op, cutoffs) ==
    LET c == [NoCall EXCEPT !.op = op, !.seen = f.data[a.raw],
                            !.picks = f.picks, !.cutoffs = cutoffs,
                            !.filter_length = a.filter_length,
                            !.n_jobs = a.n_jobs]
    IN  [Log(f, c) EXCEPT
            !.data[a.raw] = Append(@, [op |-> op, cutoffs |-> cutoffs])]

\* the low-pass branch passes l_freq as its cutoff
FilterStage_LowCut(a, f) ==
    LET s0 == {[f EXCEPT !.picks = pick_types(a.raw, {"grad", "mag"}, TRUE,
                                              TRUE, InfoBads[a.raw] \cup a.bads)]}
        s1 == {IF a.l_freq = None /\ a.h_freq # None
                  THEN ApplyFilter(a, x, "high_pass_filter", <<a.h_freq>>)
                  ELSE x : x \in s0}
        s2 == {IF a.l_freq # None /\ a.h_freq = None
                  THEN ApplyFilter(a, x, "low_pass_filter", <<a.l_freq>>)
                  ELSE x : x \in s1}
        s3 == {IF a.l_freq # None /\ a.h_freq # None
                  THEN ApplyFilter(a, x, "band_pass_filter",
                                   <<a.l_freq, a.h_freq>>)
                  ELSE x : x \in s2}
    IN  CHOOSE x \in s3 : TRUE

\* lines 124-131: three independent `if` statements
FilterStage(a, f) ==
    LET s0 == {[f EXCEPT !.picks = pick_types(a.raw, {"grad", "mag"}, TRUE,
                                              TRUE, InfoBads[a.raw] \cup a.bads)]}
        s1 == {IF a.l_freq = None /\ a.h_freq # None
                  THEN ApplyFilter(a, x, "high_pass_filter", <<a.h_freq>>)
                  ELSE x : x \in s0}
        s2 == {IF a.l_freq # None /\ a.h_freq = None
                  THEN ApplyFilter(a, x, "low_pass_filter", <<a.h_freq>>)
                  ELSE x : x \in s1}
        s3 == {IF a.l_freq # None /\ a.h_freq # None
                  THEN ApplyFilter(a, x, "band_pass_filter",
                                   <<a.l_freq, a.h_freq>>)
                  ELSE x : x \in s2}
    IN  CHOOSE x \in s3 : TRUE

\* lines 133-134: reading `events` when no branch assigned it raises
MakeEpochs(a, f) ==
    IF ~f.events.bound
    THEN [f EXCEPT !.exc = UnboundLocalError]
    ELSE Log(f, [NoCall EXCEPT !.op = "Epochs", !.seen = f.data[a.raw],
                               !.picks = f.picks,
                               !.reject = f.dicts[a.reject]])

\* lines 136-143
Reduce(a, f) ==
    LET ev_projs == compute_proj(a.n, a.raw, f.picks)
        g == IF a.average
             THEN Log(Log(f, [NoCall EXCEPT !.op = "epochs.average"]),
                      [NoCall EXCEPT !.op = "compute_proj_evoked",
                                     !.ret = ev_projs])
             ELSE Log(f, [NoCall EXCEPT !.op = "compute_proj_epochs",
                                        !.ret = ev_projs])
    IN  ExtendProjs(a, g, ev_projs)

\* the recording is filtered before the detector is called
Run_FilterFirst(a, f) ==
    LET s1 == {IF x.exc = NoExc THEN CheckPreloaded(a, x) ELSE x : x \in {f}}
        s2 == {IF x.exc = NoExc THEN SelectProjs(a, x) ELSE x : x \in s1}
        s3 == {IF x.exc = NoExc THEN PruneReject(a, x) ELSE x : x \in s2}
        s4 == {IF x.exc = NoExc THEN FilterStage(a, x) ELSE x : x \in s3}
        s5 == {IF x.exc = NoExc THEN DetectEvents(a, x) ELSE x : x \in s4}
        s6 == {IF x.exc = NoExc THEN MakeEpochs(a, x) ELSE x : x \in s5}
        s7 == {IF x.exc = NoExc THEN Reduce(a, x) ELSE x : x \in s6}
    IN  CHOOSE x \in s7 : TRUE

\* lines 89-147: one statement after another, each on the frame the one
\* before it left, an exception ending the call where it is raised
Run(a, f) ==
    LET s1 == {IF x.exc = NoExc THEN CheckPreloaded(a, x) ELSE x : x \in {f}}
        s2 == {IF x.exc = NoExc THEN SelectProjs(a, x) ELSE x : x \in s1}
        s3 == {IF x.exc = NoExc THEN DetectEvents(a, x) ELSE x : x \in s2}
        s4 == {IF x.exc = NoExc THEN PruneReject(a, x) ELSE x : x \in s3}
        s5 == {IF x.exc = NoExc THEN FilterStage(a, x) ELSE x : x \in s4}
        s6 == {IF x.exc = NoExc THEN MakeEpochs(a, x) ELSE x : x \in s5}
        s7 == {IF x.exc = NoExc THEN Reduce(a, x) ELSE x : x \in s6}
    IN  CHOOSE x \in s7 : TRUE

\* the state after the call: what it left on the heap, and what the caller
\* gets (the returned pair, or the exception)
Invoke(a, callerDict) ==
    \E f0 \in {Frame(callerDict)} : \E f \in {Run(a, f0)} :
        /\ data' = f.data
        /\ projs' = f.projs
        /\ dicts' = f.dicts
        /\ calls' = f.calls
        /\ outcome' = IF f.exc = NoExc THEN "returned" ELSE f.exc
        /\ result' = IF f.exc = NoExc
                     THEN [projs |-> CurProjs(a, f), events |-> f.events]
                     ELSE [projs |-> <<>>, events |-> Unbound]
        /\ args' = a
        /\ entry' = [data |-> data, projs |-> projs, dicts |-> f0.dicts]
        /\ nCalls' = nCalls + 1

Args(fn, mode, raw, l_freq, h_freq, average, reject, bads, avg_ref, no_proj, event_id) ==
    [fn |-> fn, mode |-> mode, raw |-> raw, l_freq |-> l_freq,
     h_freq |-> h_freq, average |-> average,
     filter_length |-> DefaultFilterLength, n_jobs |-> DefaultNJobs,
     reject |-> reject, bads |-> bads, avg_ref |-> avg_ref,
     no_proj |-> no_proj, event_id |-> event_id, n |-> nCalls + 1]

NoArgs ==
    [fn |-> "", mode |-> "", raw |-> "", l_freq |-> None, h_freq |-> None,
     average |-> FALSE, filter_length |-> 0, n_jobs |-> 0, reject |-> "",
     bads |-> {}, avg_ref |-> FALSE, no_proj |-> FALSE, event_id |-> 0,
     n |-> 0]

\* lines 150-228, with the default reject or a dict of the caller
compute_proj_ecg ==
    /\ nCalls < MaxCalls
    /\ outcome = "none"
    /\ \E raw \in Recordings, l_freq \in LFreqs, h_freq \in HFreqs,
          average \in BOOLEAN, bads \in BadsLists,
          avg_ref \in BOOLEAN, no_proj \in BOOLEAN,
          reject \in {EmptyDict, PartialReject} :
          Invoke(Args("compute_proj_ecg", "ECG", raw, l_freq, h_freq, average,
                      IF reject = EmptyDict THEN "ecg_default" ELSE "caller",
                      bads, avg_ref, no_proj, EcgEventId),
                 reject)

\* lines 231-309
compute_proj_eog ==
    /\ nCalls < MaxCalls
    /\ outcome = "none"
    /\ \E raw \in Recordings, l_freq \in LFreqs, h_freq \in HFreqs,
          average \in BOOLEAN, bads \in BadsLists,
          avg_ref \in BOOLEAN, no_proj \in BOOLEAN,
          reject \in {EmptyDict, PartialReject} :
          Invoke(Args("compute_proj_eog", "EOG", raw, l_freq, h_freq, average,
                      IF reject = EmptyDict THEN "eog_default" ELSE "caller",
                      bads, avg_ref, no_proj, EogEventId),
                 reject)

\* lines 16-147 called with a mode that is neither 'ECG' nor 'EOG' (with
\* those two it is what the wrappers do)
compute_exg_proj ==
    /\ nCalls < MaxCalls
    /\ outcome = "none"
    /\ \E mode \in OtherModes, raw \in Recordings, l_freq \in LFreqs,
          h_freq \in HFreqs, average \in BOOLEAN,
          bads \in BadsLists, avg_ref \in BOOLEAN, no_proj \in BOOLEAN :
          Invoke(Args("_compute_exg_proj", mode, raw, l_freq, h_freq, average,
                      "caller", bads, avg_ref, no_proj, EcgEventId),
                 FullReject)

\* between two calls: the caller has dropped the returned pair (or handled
\* the exception) and its reject dict
Drop ==
    /\ outcome # "none"
    /\ dicts' = [dicts EXCEPT !["caller"] = EmptyDict]
    /\ args' = NoArgs
    /\ entry' = [data |-> data, projs |-> projs, dicts |-> dicts']
    /\ calls' = <<>>
    /\ outcome' = "none"
    /\ result' = [projs |-> <<>>, events |-> Unbound]
    /\ UNCHANGED <<data, projs, nCalls>>

Init ==
    /\ data = [r \in Recordings |-> <<>>]
    /\ projs = InitProjs
    /\ dicts = [ecg_default |-> EcgDefaultReject,
                eog_default |-> EogDefaultReject,
                caller |-> EmptyDict]
    /\ nCalls = 0
    /\ args = NoArgs
    /\ entry = [data |-> data, projs |-> projs, dicts |-> dicts]
    /\ calls = <<>>
    /\ outcome = "none"
    /\ result = [projs |-> <<>>, events |-> Unbound]

Next == compute_proj_ecg \/ compute_proj_eog \/ compute_exg_proj \/ Drop

Spec == Init /\ [][Next]_vars

\* ================================================================ claims
\* an invocation has ended and the caller still holds what it got
Called == outcome # "none"

Wrappers == {"compute_proj_ecg", "compute_proj_eog"}

\* the positions in `calls` of the calls to the collaborators in ops
Idx(ops) == {i \in 1..Len(calls) : calls[i].op \in ops}

\* what the one call to a collaborator in ops returned
RetOf(ops) ==
    IF Idx(ops) = {} THEN <<>> ELSE calls[CHOOSE i \in Idx(ops) : TRUE].ret

IsPrefix(s, t) == Len(s) <= Len(t) /\ SubSeq(t, 1, Len(s)) = s

Elems(s) == {s[i] : i \in 1..Len(s)}

FreqSet == args.l_freq # None \/ args.h_freq # None

C2_InvalidModeRaises ==
    (Called /\ args.mode \notin {"ECG", "EOG"} /\ Preloaded[args.raw]) =>
        /\ outcome = ModeError
        /\ data[args.raw] = entry.data[args.raw]

\* C3 as stated: the reject dict handed to Epochs has the key of a category
\* only if the recording has a channel of that category that is neither in
\* raw.info['bads'] nor in the bads argument, that is, only if the picks
\* handed over with it hold a channel of the category.
C3_RejectKeysHaveGoodChannels ==
    Called =>
        \A e \in Idx({"Epochs"}) : \A key \in DOMAIN calls[e].reject :
            /\ \E ch \in Channels[args.raw] :
                  /\ ChType[ch] = key
                  /\ ch \notin (InfoBads[args.raw] \cup args.bads)
            /\ \E ch \in calls[e].picks : ChType[ch] = key

\* C4 as stated: in a wrapper invocation on a preloaded recording, with the
\* default reject or a caller's, on the first call or a later one, pruning
\* raises nothing and the call goes on to filtering and epoch extraction.
C4_PruningNeverRaises ==
    (Called /\ args.fn \in Wrappers /\ Preloaded[args.raw]) =>
        /\ outcome # KeyError
        /\ Idx({"Epochs"}) # {}

\* C5 as stated: a call that passes no reject starts, in compute_proj_ecg,
\* from a default with a finite EOG threshold and, in compute_proj_eog, from
\* a default with no finite EOG threshold, whatever calls came before; and
\* a call leaves both defaults as it found them.
C5_DefaultsKept ==
    Called =>
        /\ args.reject = "ecg_default" =>
              /\ "eog" \in DOMAIN entry.dicts["ecg_default"]
              /\ entry.dicts["ecg_default"]["eog"] # Inf
        /\ args.reject = "eog_default" =>
              \/ "eog" \notin DOMAIN entry.dicts["eog_default"]
              \/ entry.dicts["eog_default"]["eog"] = Inf
        /\ dicts["ecg_default"] = entry.dicts["ecg_default"]
        /\ dicts["eog_default"] = entry.dicts["eog_default"]

\* the filter calls of the invocation, in call order
FilterCalls == SelectSeq(calls, LAMBDA c : c.op \in FilterOps)

\* the channels line 124 picks: MEG, EEG and EOG channels that are not bad
GoodPicks ==
    {ch \in Channels[args.raw] \ (InfoBads[args.raw] \cup args.bads) :
        ChType[ch] \in {"grad", "mag", "eeg", "eog"}}

C7_AssemblyOrder ==
    (outcome = "returned" /\ args.avg_ref /\ ~args.no_proj) =>
        /\ Len(RetOf({"make_eeg_average_ref_proj"})) = 1
        /\ Cardinality(Idx(ReduceOps)) = 1
        /\ result.projs = entry.projs[args.raw]
                              \o RetOf({"make_eeg_average_ref_proj"})
                              \o RetOf(ReduceOps)
        /\ Cardinality(Elems(result.projs)) = Len(result.projs)

C7_Witness ==
    /\ outcome = "returned" /\ args.avg_ref /\ ~args.no_proj
    /\ Len(entry.projs[args.raw]) >= 2
    /\ Len(RetOf(ReduceOps)) >= 2
    /\ Len(result.projs) = Len(entry.projs[args.raw]) + 1 + Len(RetOf(ReduceOps))

\* C8 as stated: a call of compute_proj_ecg with no_proj=True that returns,
\* at any avg_ref, returns a list with no entry of the recording's list at
\* entry and whose first entries are exactly the reducer's projections.
C8_NewProjectionsFirst ==
    (outcome = "returned" /\ args.fn = "compute_proj_ecg" /\ args.no_proj) =>
        /\ Elems(result.projs) \cap Elems(entry.projs[args.raw]) = {}
        /\ IsPrefix(RetOf(ReduceOps), result.projs)

\* C8 amended: such a call returns a list with no entry of the recording's
\* list at entry; the list is exactly the reducer's projections when
\* avg_ref=False, and one average-reference projection followed by exactly
\* the reducer's projections when avg_ref=True.
C8_NoExistingProjections ==
    (outcome = "returned" /\ args.fn = "compute_proj_ecg" /\ args.no_proj) =>
        /\ Elems(result.projs) \cap Elems(entry.projs[args.raw]) = {}
        /\ Len(RetOf({"make_eeg_average_ref_proj"})) =
              (IF args.avg_ref THEN 1 ELSE 0)
        /\ result.projs = RetOf({"make_eeg_average_ref_proj"}) \o RetOf(ReduceOps)

C8_Witness ==
    /\ outcome = "returned" /\ args.fn = "compute_proj_ecg"
    /\ args.no_proj /\ args.avg_ref
    /\ Len(entry.projs[args.raw]) >= 1
    /\ Len(RetOf(ReduceOps)) >= 1
    /\ result.projs[1].kind = "avgref"

\* C9: a call on a recording that is not preloaded ends with the
\* precondition error, and then the signal data, the attached projection
\* lists and the reject dicts (the one passed in among them) are what they
\* were at entry and no collaborator has been called.
C9_NotPreloadedFailsFirst ==
    (Called /\ ~Preloaded[args.raw]) =>
        /\ outcome = PreloadError
        /\ data = entry.data
        /\ projs = entry.projs
        /\ dicts = entry.dicts
        /\ calls = <<>>

C9_Witness ==
    /\ outcome = PreloadError
    /\ ~Preloaded[args.raw]
    /\ args.avg_ref /\ ~args.no_proj
    /\ args.l_freq # None
    /\ args.reject = "ecg_default"
    /\ nCalls = 2

\* C10: with no_proj=False a call that returns leaves the recording's
\* attached list equal to the returned list, which is the list at entry,
\* then the average reference if avg_ref, then the reducer's projections;
\* over a sequence of calls every attached list only grows at its end;
\* with no_proj=True every attached list is after the call what it was
\* before.
C10_AttachedListAliased ==
    Called =>
        /\ (outcome = "returned" /\ ~args.no_proj) =>
              /\ projs[args.raw] = result.projs
              /\ result.projs = entry.projs[args.raw]
                                    \o RetOf({"make_eeg_average_ref_proj"})
                                    \o RetOf(ReduceOps)
              /\ Len(RetOf({"make_eeg_average_ref_proj"})) =
                    (IF args.avg_ref THEN 1 ELSE 0)
        /\ \A r \in Recordings :
              /\ IsPrefix(entry.projs[r], projs[r])
              /\ IsPrefix(InitProjs[r], entry.projs[r])
        /\ args.no_proj => projs = entry.projs

C10_Witness ==
    /\ outcome = "returned" /\ ~args.no_proj
    /\ nCalls = 2
    /\ Len(entry.projs[args.raw]) > Len(InitProjs[args.raw])
    /\ Len(projs[args.raw]) > Len(entry.projs[args.raw])
    /\ projs[args.raw] = result.projs

====
